---- MODULE Spec2Model ----
(***************************************************************************)
(* Model of the dictation session controller of whisper-smart              *)
(* (gpui-rust-whispersmart/src/state_machine.rs) together with the         *)
(* collaborator traits it drives (provider.rs, services.rs, clipboard.rs).  *)
(*                                                                         *)
(* Every public method of DictationStateMachine takes &mut self, so a call *)
(* is one atomic action.  The collaborators are trait objects: each call   *)
(* of a trait method may return Ok or Err, chosen nondeterministically.    *)
(* Strings are sequences of characters, Vec<f32> chunks are sequences of   *)
(* samples, Option<String> is a sequence of length 0 (None) or 1 (Some).   *)
(***************************************************************************)
EXTENDS Integers, Sequences, FiniteSets, TLC

\* ---------------------------------------------------------------- bounds
MaxLen == 2            \* longest transcript text the provider returns
MaxPartialLen == 1     \* longest interim text written to partial_text
MaxChunkLen == 1       \* longest PCM chunk read_mono_chunk returns
MaxCaptured == 2       \* most chunks the AudioSource produces in one capture
MaxFed == 2            \* most chunks fed within one provider session
MaxSettingLen == 1     \* longest global_hotkey a caller stores

Chars == {"a", " "}
PartialChars == {"a"}
Samples == {1}

SeqsUpTo(S, n) == UNION {[1..k -> S] : k \in 0..n}

Texts == SeqsUpTo(Chars, MaxLen)
PartialTexts == SeqsUpTo(PartialChars, MaxPartialLen)
Chunks == SeqsUpTo(Samples, MaxChunkLen)

\* ------------------------------------------------------------ model.rs
UiIdle == [kind |-> "Idle", reason |-> ""]
UiRecording == [kind |-> "Recording", reason |-> ""]
UiTranscribing == [kind |-> "Transcribing", reason |-> ""]
UiSuccess == [kind |-> "Success", reason |-> ""]
UiError(r) == [kind |-> "Error", reason |-> r]

None == <<>>
Some(t) == <<t>>

DictationSessionDefault == [partial_text |-> <<>>, final_text |-> None]

\* ------------------------------------------------- str::trim, is_empty
IsWhitespace(c) == c = " "

RECURSIVE TrimStart(_)
TrimStart(t) ==
    IF t # <<>> /\ IsWhitespace(Head(t)) THEN TrimStart(Tail(t)) ELSE t

RECURSIVE TrimEnd(_)
TrimEnd(t) ==
    IF t # <<>> /\ IsWhitespace(t[Len(t)])
    THEN TrimEnd(SubSeq(t, 1, Len(t) - 1))
    ELSE t

Trim(t) == TrimEnd(TrimStart(t))

IsBlankNoTrim(t) == t = <<>>
\* !result.text.trim().is_empty() is the negation of this
IsBlank(t) == Trim(t) = <<>>

\* ----------------------------------------- collaborator call outcomes
\* Errors a collaborator may return (anyhow::Error, shown by its message).
ErrBegin == "ProviderUnavailable"
ErrStartCapture == "CaptureStateError"
ErrRead == "CaptureReadError"
ErrFeed == "ProviderStreamError"
ErrStopCapture == "CaptureStopError"
ErrEnd == "ProviderFinalizeError"
InsertErrors == {"no focus"}
NoTranscript == "No transcript returned"
FailReasons == {"capture error"}

BeginOutcomes == {"Ok", ErrBegin}
StartCaptureOutcomes == {"Ok", ErrStartCapture}
ReadOutcomes ==
    {[res |-> "Ok", chunk |-> c] : c \in Chunks}
        \cup {[res |-> ErrRead, chunk |-> <<>>]}
FeedOutcomes == {"Ok", ErrFeed}
StopCaptureOutcomes == {"Ok", ErrStopCapture}
EndOutcomes ==
    {[res |-> "Ok", text |-> t] : t \in Texts}
        \cup {[res |-> ErrEnd, text |-> <<>>]}
InsertOutcomes == {"Ok"} \cup InsertErrors

\* One entry of the log of collaborator calls made by a controller call:
\* the trait method, what it returned, the text passed or returned, the
\* chunk passed or returned, and whether the resource the method belongs
\* to (provider session or capture) was open when it was invoked.
Call(fn, res, text, chunk, open) ==
    [fn |-> fn, res |-> res, text |-> text, chunk |-> chunk, open |-> open]

VARIABLES
    state,      \* DictationStateMachine.state
    session,    \* DictationStateMachine.session
    provOpen,   \* provider session begun and end_session not called since
    capOpen,    \* capture started and stop_capture not called since
    last,       \* the last call: method, result, collaborator calls, pre-state
    prev        \* the call before it, when that was a start_recording that
                \* returned Ok or a reset_to_idle: the kind of the state it
                \* was called from

\* The position of the control thread inside stop_and_transcribe, its
\* locals, and the audio that the AudioSource holds (used by the
\* specification that runs the method one collaborator call at a time).
VARIABLES
    pc,         \* "idle" between calls, else the collaborator call to make
    chunk,      \* local `chunk` of stop_and_transcribe
    result,     \* local `result.text` of stop_and_transcribe
    captured,   \* chunks the AudioSource produced since start_capture
    queue,      \* chunks produced and not yet returned by read_mono_chunk
    fed         \* chunks passed to feed_audio_chunk since begin_session

streamVars == <<pc, chunk, result, captured, queue, fed>>

\* The SettingsStore and the file system it works on.
VARIABLES
    path,       \* SettingsStore.path ("unset" before SettingsStore::new)
    file,       \* the regular file "cfg/settings.json": exists, content
    slast,      \* the last store call: method, argument, result, I/O fault,
                \* the file before the call
    sprev       \* the call before it, when that was a save that returned
                \* Ok: its argument

storeVars == <<path, file, slast, sprev>>

ctrlVars == <<state, session, provOpen, capOpen, last, prev, streamVars>>

vars == <<state, session, provOpen, capOpen, last, prev, streamVars,
          storeVars>>

NoFile == [exists |-> FALSE, content |-> <<>>]
NoStoreCall ==
    [op |-> "none", arg |-> <<>>, ret |-> <<>>, fault |-> FALSE,
     pre |-> NoFile]
NoStorePrev == [op |-> "none", arg |-> <<>>]

Snapshot ==
    [state |-> state, session |-> session,
     provOpen |-> provOpen, capOpen |-> capOpen]

NoCall == [op |-> "new", ret |-> "Ok", calls |-> <<>>, pre |-> <<>>]
NoPrev == [op |-> "none", preKind |-> "none"]

Shift ==
    IF last.op = "start_recording" /\ last.ret = "Ok"
    THEN [op |-> "start_recording", preKind |-> last.pre.state.kind]
    ELSE IF last.op = "reset_to_idle"
    THEN [op |-> "reset_to_idle", preKind |-> last.pre.state.kind]
    ELSE NoPrev

\* DictationStateMachine::new
Init ==
    /\ state = UiIdle
    /\ session = DictationSessionDefault
    /\ provOpen = FALSE
    /\ capOpen = FALSE
    /\ last = NoCall
    /\ prev = NoPrev
    /\ pc = "idle"
    /\ chunk = <<>>
    /\ result = <<>>
    /\ captured = <<>>
    /\ queue = <<>>
    /\ fed = <<>>
    /\ path = "unset"
    /\ file = NoFile
    /\ slast = NoStoreCall
    /\ sprev = NoStorePrev

\* Result of a controller call: the fields it leaves behind, the
\* collaborator calls it made and the value it returns.
Outcome(st, se, po, co, calls, ret) ==
    [state |-> st, session |-> se, provOpen |-> po, capOpen |-> co,
     calls |-> calls, ret |-> ret]

\* Commit the outcome r of the call op.
Commit(op, r) ==
    /\ state' = r.state
    /\ session' = r.session
    /\ provOpen' = r.provOpen
    /\ capOpen' = r.capOpen
    /\ last' = [op |-> op, ret |-> r.ret, calls |-> r.calls, pre |-> Snapshot]
    /\ prev' = Shift
    /\ UNCHANGED <<streamVars, storeVars>>

\* --------------------------------------------------- start_recording
StartRecordingKeepsSession(b, c) ==
    LET c1 == <<Call("begin_session", b, <<>>, <<>>, provOpen)>>
        p1 == IF b = "Ok" THEN TRUE ELSE provOpen
        c2 == Append(c1, Call("start_capture", c, <<>>, <<>>, capOpen))
    IN  IF b # "Ok"
        THEN Outcome(state, session, provOpen, capOpen, c1, b)
        ELSE IF c # "Ok"
        THEN Outcome(state, session, p1, capOpen, c2, c)
        ELSE Outcome(UiRecording, session, p1, TRUE, c2, "Ok")

\* b, c: what begin_session and start_capture return.
StartRecordingOutcome(b, c) ==
    LET c1 == <<Call("begin_session", b, <<>>, <<>>, provOpen)>>
        p1 == IF b = "Ok" THEN TRUE ELSE provOpen
        c2 == Append(c1, Call("start_capture", c, <<>>, <<>>, capOpen))
    IN  IF b # "Ok"
        THEN Outcome(state, session, provOpen, capOpen, c1, b)
        ELSE IF c # "Ok"
        THEN Outcome(state, session, p1, capOpen, c2, c)
        ELSE Outcome(UiRecording, DictationSessionDefault, p1, TRUE, c2, "Ok")

\* start_capture is not reached when begin_session failed.
StartScenarios ==
    {sc \in BeginOutcomes \X StartCaptureOutcomes :
        sc[1] = "Ok" \/ sc[2] = "Ok"}

start_recording ==
    \E sc \in StartScenarios :
        Commit("start_recording", StartRecordingOutcome(sc[1], sc[2]))

\* ----------------------------------------------- stop_and_transcribe
InsertArgTrimmed(text) == Trim(text)
\* the argument of clipboard.insert_text: &result.text
InsertArg(text) == text

\* r, f, s, e, i: what read_mono_chunk, feed_audio_chunk, stop_capture,
\* end_session and insert_text return.
StopAndTranscribeOutcome(r, f, s, e, i) ==
    LET st1 == UiTranscribing
        c1 == <<Call("read_mono_chunk", r.res, <<>>, r.chunk, capOpen)>>
        c2 == Append(c1, Call("feed_audio_chunk", f, <<>>, r.chunk, provOpen))
        c3 == Append(c2, Call("stop_capture", s, <<>>, <<>>, capOpen))
        c4 == Append(c3, Call("end_session", e.res, e.text, <<>>, provOpen))
        se4 == [session EXCEPT !.final_text = Some(e.text)]
        c5 == Append(c4, Call("insert_text", i, InsertArg(e.text), <<>>, FALSE))
    IN  IF r.res # "Ok"
        THEN Outcome(st1, session, provOpen, capOpen, c1, r.res)
        ELSE IF f # "Ok"
        THEN Outcome(st1, session, provOpen, capOpen, c2, f)
        ELSE IF s # "Ok"
        THEN Outcome(st1, session, provOpen, FALSE, c3, s)
        ELSE IF e.res # "Ok"
        THEN Outcome(st1, session, FALSE, FALSE, c4, e.res)
        ELSE IF ~IsBlank(e.text)
        THEN IF i # "Ok"
             THEN Outcome(st1, se4, FALSE, FALSE, c5, i)
             ELSE Outcome(UiSuccess, se4, FALSE, FALSE, c5, "Ok")
        ELSE Outcome(UiError(NoTranscript), se4, FALSE, FALSE, c4, "Ok")

\* The collaborator outcomes one call of stop_and_transcribe can meet: a
\* method that is not reached (an earlier `?` returned, or the text is
\* blank) returns nothing, written here as its first outcome.
StopScenarios ==
    {sc \in ReadOutcomes \X FeedOutcomes \X StopCaptureOutcomes
                \X EndOutcomes \X InsertOutcomes :
        LET r == sc[1]  f == sc[2]  s == sc[3]  e == sc[4]  i == sc[5]
            reachFeed == r.res = "Ok"
            reachStop == reachFeed /\ f = "Ok"
            reachEnd == reachStop /\ s = "Ok"
            reachIns == reachEnd /\ e.res = "Ok" /\ ~IsBlank(e.text)
        IN  /\ reachFeed \/ f = "Ok"
            /\ reachStop \/ s = "Ok"
            /\ reachEnd \/ e = [res |-> "Ok", text |-> <<>>]
            /\ reachIns \/ i = "Ok"}

stop_and_transcribe ==
    \E sc \in StopScenarios :
        Commit("stop_and_transcribe",
               StopAndTranscribeOutcome(sc[1], sc[2], sc[3], sc[4], sc[5]))

\* ----------------------------------------------------- reset_to_idle
ResetSessionDefault(se) == DictationSessionDefault
\* self.session.partial_text.clear()
ResetSession(se) == [se EXCEPT !.partial_text = <<>>]

reset_to_idle ==
    Commit("reset_to_idle",
           Outcome(UiIdle, ResetSession(session), provOpen, capOpen, <<>>, "Ok"))

\* -------------------------------------------------------------- fail
fail ==
    \E reason \in FailReasons :
        Commit("fail",
               Outcome(UiError(reason), session, provOpen, capOpen, <<>>, "Ok"))

\* ------------------------------------- write of session.partial_text
\* `session` and its field `partial_text` are public: the owner of the
\* controller (the layer that shows interim transcripts) can store an
\* interim text in it between two calls.
write_partial_text ==
    \E t \in PartialTexts :
        /\ t # session.partial_text
        /\ Commit("write_partial_text",
                  Outcome(state, [session EXCEPT !.partial_text = t],
                          provOpen, capOpen, <<>>, "Ok"))

Next ==
    \/ start_recording
    \/ stop_and_transcribe
    \/ reset_to_idle
    \/ fail
    \/ write_partial_text

Spec == Init /\ [][Next]_vars

TypeOK ==
    /\ state.kind \in {"Idle", "Recording", "Transcribing", "Success", "Error"}
    /\ session.partial_text \in PartialTexts
    /\ session.final_text \in {None} \cup {Some(t) : t \in Texts}
    /\ provOpen \in BOOLEAN
    /\ capOpen \in BOOLEAN

\* =================================================================
\* stop_and_transcribe one collaborator call at a time, against an
\* AudioSource that buffers the chunks it captures (4.3: read_mono_chunk
\* waits until a chunk is available or capture is stopped, and returns an
\* empty chunk once capture is stopped and nothing is buffered).
\* Here `last` records the method, the state it was called in and its
\* result ("running" until it returns), not the collaborator calls.
Called(op, ret) == [op |-> op, ret |-> ret, calls |-> <<>>, pre |-> Snapshot]

\* start_recording (lines 33-39), a single step: it does not wait.
s_start_recording ==
    /\ UNCHANGED storeVars
    /\ pc = "idle"
    /\ \E sc \in StartScenarios :
        LET r == StartRecordingOutcome(sc[1], sc[2])
        IN  /\ state' = r.state
            /\ session' = r.session
            /\ provOpen' = r.provOpen
            /\ capOpen' = r.capOpen
            /\ last' = Called("start_recording", r.ret)
            /\ fed' = IF sc[1] = "Ok" THEN <<>> ELSE fed
            /\ captured' = IF r.ret = "Ok" THEN <<>> ELSE captured
            /\ queue' = IF r.ret = "Ok" THEN <<>> ELSE queue
    /\ UNCHANGED <<prev, pc, chunk, result>>

\* The capture hardware delivers one more non-empty chunk.
capture_chunk ==
    /\ UNCHANGED storeVars
    /\ capOpen
    /\ Len(captured) < MaxCaptured
    /\ \E c \in Chunks \ {<<>>} :
        /\ captured' = Append(captured, c)
        /\ queue' = Append(queue, c)
    /\ UNCHANGED <<state, session, provOpen, capOpen, last, prev,
                   pc, chunk, result, fed>>

\* line 42: self.state = UiState::Transcribing
s_enter ==
    /\ UNCHANGED storeVars
    /\ pc = "idle"
    /\ Len(fed) < MaxFed
    /\ state' = UiTranscribing
    /\ pc' = "read_mono_chunk"
    /\ last' = Called("stop_and_transcribe", "running")
    /\ UNCHANGED <<session, provOpen, capOpen, prev,
                   chunk, result, captured, queue, fed>>

\* The stop_and_transcribe in progress returns ret; its locals are dropped.
Return(ret) ==
    /\ pc' = "idle"
    /\ last' = [last EXCEPT !.ret = ret]
    /\ chunk' = <<>>
    /\ result' = <<>>

\* 4.3: read_mono_chunk waits until a chunk is available or capture is
\* stopped.
ReadReady == queue # <<>> \/ ~capOpen

\* line 43: let chunk = self.audio.read_mono_chunk()?
s_read_mono_chunk ==
    /\ UNCHANGED storeVars
    /\ pc = "read_mono_chunk"
    /\ ReadReady
    /\ \/ /\ chunk' = IF queue # <<>> THEN Head(queue) ELSE <<>>
          /\ queue' = IF queue # <<>> THEN Tail(queue) ELSE queue
          /\ pc' = "feed_audio_chunk"
          /\ UNCHANGED <<last, result>>
       \/ /\ Return(ErrRead)
          /\ UNCHANGED queue
    /\ UNCHANGED <<state, session, provOpen, capOpen, prev, captured, fed>>

\* line 44: self.provider.feed_audio_chunk(&chunk)?
s_feed_audio_chunk ==
    /\ UNCHANGED storeVars
    /\ pc = "feed_audio_chunk"
    /\ \/ /\ fed' = Append(fed, chunk)
          /\ pc' = "stop_capture"
          /\ UNCHANGED <<last, chunk, result>>
       \/ /\ Return(ErrFeed)
          /\ UNCHANGED fed
    /\ UNCHANGED <<state, session, provOpen, capOpen, prev, captured, queue>>

\* line 45: self.audio.stop_capture()?
s_stop_capture ==
    /\ UNCHANGED storeVars
    /\ pc = "stop_capture"
    /\ capOpen' = FALSE
    /\ \/ pc' = "end_session" /\ UNCHANGED <<last, chunk, result>>
       \/ Return(ErrStopCapture)
    /\ UNCHANGED <<state, session, provOpen, prev, captured, queue, fed>>

\* lines 47-55 up to the call of insert_text
s_end_session ==
    /\ UNCHANGED storeVars
    /\ pc = "end_session"
    /\ provOpen' = FALSE
    /\ \/ \E t \in Texts :
            /\ session' = [session EXCEPT !.final_text = Some(t)]
            /\ IF ~IsBlank(t)
               THEN /\ pc' = "insert_text"
                    /\ result' = t
                    /\ UNCHANGED <<state, last, chunk>>
               ELSE /\ state' = UiError(NoTranscript)
                    /\ Return("Ok")
       \/ /\ Return(ErrEnd)
          /\ UNCHANGED <<state, session>>
    /\ UNCHANGED <<capOpen, prev, captured, queue, fed>>

\* lines 51-52 and 57
s_insert_text ==
    /\ UNCHANGED storeVars
    /\ pc = "insert_text"
    /\ \/ state' = UiSuccess /\ Return("Ok")
       \/ \E e \in InsertErrors : Return(e) /\ UNCHANGED state
    /\ UNCHANGED <<session, provOpen, capOpen, prev, captured, queue, fed>>

\* The steps of a stop_and_transcribe in progress.
StopSteps ==
    \/ s_read_mono_chunk
    \/ s_feed_audio_chunk
    \/ s_stop_capture
    \/ s_end_session
    \/ s_insert_text

NextStream ==
    \/ s_start_recording
    \/ capture_chunk
    \/ s_enter
    \/ s_read_mono_chunk
    \/ s_feed_audio_chunk
    \/ s_stop_capture
    \/ s_end_session
    \/ s_insert_text

\* A call in progress keeps running on its thread; the callers and the
\* capture hardware are under no obligation.
SpecStream == Init /\ [][NextStream]_vars /\ WF_vars(StopSteps)

\* =================================================================
\* settings.rs and store.rs: AppSettings and the SettingsStore that keeps
\* it as pretty-printed JSON in one file.  A String is a sequence of
\* characters, the file content is the sequence of characters written.
DefaultHotkey ==
    <<"O", "p", "t", "i", "o", "n", "+", "S", "p", "a", "c", "e">>
DefaultProvider ==
    <<"p", "l", "a", "c", "e", "h", "o", "l", "d", "e", "r">>

\* impl Default for AppSettings
AppSettingsDefault ==
    [global_hotkey |-> DefaultHotkey, provider |-> DefaultProvider,
     auto_insert |-> TRUE]

\* Characters of the strings a caller stores: a plain one and the ones
\* JSON has to escape.
SettingChars == {"a", "\"", "\\"}
Hotkeys == {DefaultHotkey} \cup SeqsUpTo(SettingChars, MaxSettingLen)
Providers == {DefaultProvider, <<"\\">>}
SettingsValues ==
    [global_hotkey : Hotkeys, provider : Providers, auto_insert : BOOLEAN]

\* ---- serde_json::to_string_pretty(settings)
EscapeCharNoBackslash(c) ==
    CASE c = "\"" -> <<"\\", "\"">>
      [] c = "\n" -> <<"\\", "n">>
      [] OTHER -> <<c>>
\* the escapes serde_json writes inside a string literal
EscapeChar(c) ==
    CASE c = "\"" -> <<"\\", "\"">>
      [] c = "\\" -> <<"\\", "\\">>
      [] c = "\n" -> <<"\\", "n">>
      [] OTHER -> <<c>>

RECURSIVE Escape(_)
Escape(s) == IF s = <<>> THEN <<>> ELSE EscapeChar(Head(s)) \o Escape(Tail(s))

Quote(s) == <<"\"">> \o Escape(s) \o <<"\"">>

JsonOpenHotkey ==
    <<"{", "\n", " ", " ", "\"", "g", "l", "o", "b", "a", "l", "_", "h",
      "o", "t", "k", "e", "y", "\"", ":", " ">>
JsonProvider ==
    <<",", "\n", " ", " ", "\"", "p", "r", "o", "v", "i", "d", "e", "r",
      "\"", ":", " ">>
JsonAutoInsert ==
    <<",", "\n", " ", " ", "\"", "a", "u", "t", "o", "_", "i", "n", "s",
      "e", "r", "t", "\"", ":", " ">>
JsonClose ==
    <<"\n", "}">>
JsonTrue ==
    <<"t", "r", "u", "e">>
JsonFalse ==
    <<"f", "a", "l", "s", "e">>

ToStringPretty(s) ==
    JsonOpenHotkey \o Quote(s.global_hotkey)
        \o JsonProvider \o Quote(s.provider)
        \o JsonAutoInsert \o (IF s.auto_insert THEN JsonTrue ELSE JsonFalse)
        \o JsonClose

\* ---- serde_json::from_str::<AppSettings>(raw), for the documents this
\* store can meet: the layout to_string_pretty writes, and anything else
\* that is not a complete document of that layout (a parse error).
ParseFail == [ok |-> FALSE, val |-> <<>>, rest |-> <<>>]
Parsed(v, rest) == [ok |-> TRUE, val |-> v, rest |-> rest]

HasPrefix(inp, lit) ==
    Len(inp) >= Len(lit) /\ SubSeq(inp, 1, Len(lit)) = lit
Drop(inp, n) == SubSeq(inp, n + 1, Len(inp))

\* The body of a string literal after its opening quote: up to the closing
\* quote, undoing the escapes; a raw control character is an error.
RECURSIVE ScanString(_, _)
ScanString(inp, acc) ==
    IF inp = <<>> THEN ParseFail
    ELSE IF Head(inp) = "\"" THEN Parsed(acc, Tail(inp))
    ELSE IF Head(inp) = "\n" THEN ParseFail
    ELSE IF Head(inp) = "\\"
    THEN IF Len(inp) < 2 THEN ParseFail
         ELSE IF inp[2] = "\"" THEN ScanString(Drop(inp, 2), Append(acc, "\""))
         ELSE IF inp[2] = "\\" THEN ScanString(Drop(inp, 2), Append(acc, "\\"))
         ELSE IF inp[2] = "n" THEN ScanString(Drop(inp, 2), Append(acc, "\n"))
         ELSE ParseFail
    ELSE ScanString(Tail(inp), Append(acc, Head(inp)))

ParseString(inp) ==
    IF inp # <<>> /\ Head(inp) = "\"" THEN ScanString(Tail(inp), <<>>)
    ELSE ParseFail

ParseBool(inp) ==
    IF HasPrefix(inp, JsonTrue) THEN Parsed(TRUE, Drop(inp, Len(JsonTrue)))
    ELSE IF HasPrefix(inp, JsonFalse)
    THEN Parsed(FALSE, Drop(inp, Len(JsonFalse)))
    ELSE ParseFail

FromStr(raw) ==
    IF ~HasPrefix(raw, JsonOpenHotkey) THEN ParseFail
    ELSE LET h == ParseString(Drop(raw, Len(JsonOpenHotkey)))
         IN  IF ~h.ok \/ ~HasPrefix(h.rest, JsonProvider) THEN ParseFail
             ELSE LET p == ParseString(Drop(h.rest, Len(JsonProvider)))
                  IN  IF ~p.ok \/ ~HasPrefix(p.rest, JsonAutoInsert)
                      THEN ParseFail
                      ELSE LET b == ParseBool(
                                       Drop(p.rest, Len(JsonAutoInsert)))
                           IN  IF ~b.ok \/ b.rest # JsonClose THEN ParseFail
                               ELSE Parsed([global_hotkey |-> h.val,
                                            provider |-> p.val,
                                            auto_insert |-> b.val], <<>>)

\* ---- store.rs
RegularPath == "cfg/settings.json"
\* "" and "/" have no parent; "/" exists and is a directory.
Paths == {"", "/", RegularPath}

StoreOk(v) == [ok |-> TRUE, val |-> v, err |-> ""]
StoreErr(e) == [ok |-> FALSE, val |-> <<>>, err |-> e]

StoreShift ==
    IF slast.op = "save" /\ slast.ret.ok
    THEN [op |-> "save", arg |-> slast.arg]
    ELSE NoStorePrev

StoreCommit(op, arg, ret, fault, f) ==
    /\ file' = f
    /\ slast' = [op |-> op, arg |-> arg, ret |-> ret, fault |-> fault,
                 pre |-> file]
    /\ sprev' = StoreShift
    /\ UNCHANGED <<path, ctrlVars>>

\* SettingsStore::new
store_new ==
    /\ path = "unset"
    /\ \E p \in Paths : path' = p
    /\ UNCHANGED <<file, slast, sprev, ctrlVars>>

\* self.path.exists()
PathExists == path = "/" \/ (path = RegularPath /\ file.exists)

\* SettingsStore::load; fault: fs::read_to_string meets an I/O error.
LoadResult(fault) ==
    IF ~PathExists THEN StoreOk(AppSettingsDefault)
    ELSE IF path = "/" \/ fault
    THEN StoreErr("failed reading settings file")
    ELSE LET p == FromStr(file.content)
         IN  IF p.ok THEN StoreOk(p.val)
             ELSE StoreErr("failed parsing settings json")

load ==
    /\ path # "unset"
    /\ \E fault \in BOOLEAN :
        /\ fault => (path = RegularPath /\ file.exists)
        /\ StoreCommit("load", <<>>, LoadResult(fault), fault, file)

\* SettingsStore::save; io: the step that meets an I/O error, if any.  A
\* failed fs::write leaves the file as it was or truncated.
save ==
    /\ path # "unset"
    /\ \E s \in SettingsValues :
        IF path # RegularPath
        THEN StoreCommit("save", s, StoreErr("settings path has no parent"),
                         FALSE, file)
        ELSE \/ StoreCommit("save", s, StoreOk(<<>>), FALSE,
                            [exists |-> TRUE, content |-> ToStringPretty(s)])
             \/ StoreCommit("save", s, StoreErr("create_dir_all"), TRUE, file)
             \/ \E f \in {file, [exists |-> TRUE, content |-> <<>>]} :
                    StoreCommit("save", s, StoreErr("write"), TRUE, f)

NextStore ==
    \/ store_new
    \/ load
    \/ save

SpecStore == Init /\ [][NextStore]_vars

\* ============================================================ claims
CallsOf(fn) == SelectSeq(last.calls, LAMBDA c : c.fn = fn)
AllCallsOk == \A k \in 1..Len(last.calls) : last.calls[k].res = "Ok"
Active(st) == st.kind \in {"Recording", "Transcribing"}
NonEmptyAfterTrim(t) == \E k \in 1..Len(t) : t[k] # " "
EndedOkWith(t) ==
    /\ last.op = "stop_and_transcribe"
    /\ CallsOf("end_session") # <<>>
    /\ CallsOf("end_session")[1].res = "Ok"
    /\ CallsOf("end_session")[1].text = t

\* C1: start_recording() called while the state is Recording or Transcribing
\* returns AlreadyActive and is a no-op: state and session are what they
\* were before the call and neither begin_session nor start_capture is
\* invoked.
C1_StartWhileActiveIsNoOp ==
    (last.op = "start_recording" /\ Active(last.pre.state)) =>
        /\ last.ret = "AlreadyActive"
        /\ state = last.pre.state
        /\ session = last.pre.session
        /\ last.calls = <<>>

\* C2: stop_and_transcribe() called in a state other than Recording returns
\* an error, changes neither state nor session and invokes no collaborator.
C2_StopOutsideRecordingIsNoOp ==
    (last.op = "stop_and_transcribe" /\ last.pre.state.kind # "Recording") =>
        /\ last.ret # "Ok"
        /\ state = last.pre.state
        /\ session = last.pre.session
        /\ last.calls = <<>>

\* C3: after start_recording() from Idle and then stop_and_transcribe(),
\* all collaborators succeeding and the provider's final text t being
\* non-empty after trimming, the state is Success, final_text is Some(t)
\* and insert_text was invoked exactly once, with t.
C3_HappyPath ==
    \A t \in Texts :
        ( /\ EndedOkWith(t)
          /\ prev.op = "start_recording"
          /\ prev.preKind = "Idle"
          /\ AllCallsOk
          /\ NonEmptyAfterTrim(t) ) =>
            /\ state = UiSuccess
            /\ session.final_text = Some(t)
            /\ Len(CallsOf("insert_text")) = 1
            /\ CallsOf("insert_text")[1].text = t

C3_Witness ==
    /\ EndedOkWith(<<" ", "a">>)
    /\ prev.op = "start_recording"
    /\ prev.preKind = "Idle"
    /\ AllCallsOk
    /\ state = UiSuccess

\* C4: after start_recording() and then stop_and_transcribe(), when the
\* provider's final text is empty or whitespace-only, the state is
\* Error("No transcript returned") and insert_text is not invoked.
C4_BlankTranscript ==
    \A t \in Texts :
        ( /\ EndedOkWith(t)
          /\ prev.op = "start_recording"
          /\ ~NonEmptyAfterTrim(t) ) =>
            /\ state = UiError("No transcript returned")
            /\ CallsOf("insert_text") = <<>>

C4_Witness ==
    /\ EndedOkWith(<<" ">>)
    /\ prev.op = "start_recording"
    /\ state.kind = "Error"
    /\ session.final_text = Some(<<" ">>)

\* C5: when insert_text fails with error e after the provider returned a
\* non-blank final text t, stop_and_transcribe() returns with the state
\* Error(e) and final_text still Some(t).
C5_InsertFailureIsError ==
    \A t \in Texts :
        ( /\ EndedOkWith(t)
          /\ CallsOf("insert_text") # <<>>
          /\ CallsOf("insert_text")[1].res # "Ok" ) =>
            /\ state = UiError(CallsOf("insert_text")[1].res)
            /\ session.final_text = Some(t)

\* C6: reset_to_idle() from any state sets the state to Idle and
\* partial_text to empty and leaves final_text unchanged.
C6_ResetToIdle ==
    last.op = "reset_to_idle" =>
        /\ state = UiIdle
        /\ session.partial_text = <<>>
        /\ session.final_text = last.pre.session.final_text

C6_Witness ==
    /\ last.op = "reset_to_idle"
    /\ last.pre.state.kind = "Success"
    /\ last.pre.session.partial_text # <<>>
    /\ last.pre.session.final_text # None
    /\ session.final_text # None

\* C7: at most one provider session and one capture session are open:
\* begin_session is never invoked while a provider session is open and
\* start_capture is never invoked while capture is open.
C7_NoOverlappingSessions ==
    \A k \in 1..Len(last.calls) :
        last.calls[k].fn \in {"begin_session", "start_capture"}
            => ~last.calls[k].open

\* C8: if the state is Recording or Transcribing then the provider session
\* is open.
C8_ActiveImpliesProviderOpen ==
    Active(state) => provOpen

\* C9: between calls, if final_text is Some then the state is Success or
\* Error.
C9_FinalTextImpliesTerminal ==
    session.final_text # None => state.kind \in {"Success", "Error"}

\* C10: whenever start_recording() or stop_and_transcribe() returns an
\* error caused by a collaborator failure, the state on return is
\* Error(reason) for that failure.
C10_ErrorAndStateAgree ==
    ( /\ last.op \in {"start_recording", "stop_and_transcribe"}
      /\ last.ret # "Ok" ) =>
        state = UiError(last.ret)

\* C11: if an open call of start_recording() fails, nothing it opened is
\* left open when it returns: called with no session open, it returns an
\* error with no provider session and no capture open.
C11_FailedStartLeavesNothingOpen ==
    ( /\ last.op = "start_recording"
      /\ last.ret # "Ok"
      /\ ~last.pre.provOpen
      /\ ~last.pre.capOpen ) =>
        (~provOpen /\ ~capOpen)

\* C12: fail(reason) from any state leaves the state Error(reason) and
\* leaves no provider session and no capture open.
C12_FailClosesSessions ==
    last.op = "fail" =>
        /\ state \in {UiError(r) : r \in FailReasons}
        /\ ~provOpen
        /\ ~capOpen

\* C13: stop_and_transcribe() against fail() is first-wins in either order:
\* after fail() has set Error, stop_and_transcribe() changes neither state
\* nor session; after stop_and_transcribe() has set Transcribing or a
\* terminal state, fail() does not overwrite the state.
C13_FirstTransitionWins ==
    /\ (last.op = "stop_and_transcribe" /\ last.pre.state.kind = "Error") =>
            (state = last.pre.state /\ session = last.pre.session)
    /\ (last.op = "fail"
            /\ last.pre.state.kind \in {"Transcribing", "Success", "Error"}) =>
            state = last.pre.state

\* A collaborator call of the last controller call follows the contracts
\* of 4.2/4.3 and does not fault: start_capture fails exactly when capture
\* is already open (CaptureStateError), every other call returns Ok.
NoFaultUnderContract ==
    \A k \in 1..Len(last.calls) :
        LET c == last.calls[k]
        IN  IF c.fn = "start_capture" /\ c.open
            THEN c.res = ErrStartCapture
            ELSE c.res = "Ok"

\* C14: from every reachable state, reset_to_idle() followed by
\* start_recording() reaches Recording, provided the collaborators follow
\* their contracts and do not fault.
C14_ResetThenStartRecords ==
    ( /\ last.op = "start_recording"
      /\ prev.op = "reset_to_idle"
      /\ NoFaultUnderContract ) =>
        state = UiRecording

\* C16: when a collaborator call fails inside stop_and_transcribe() called
\* from Recording, end_session and stop_capture are still invoked before it
\* returns, the first error is returned and no session is left open.
C16_FailedStopStillCloses ==
    ( /\ last.op = "stop_and_transcribe"
      /\ last.pre.state.kind = "Recording"
      /\ ~AllCallsOk ) =>
        /\ CallsOf("end_session") # <<>>
        /\ CallsOf("stop_capture") # <<>>
        /\ Len(CallsOf("feed_audio_chunk")) <= 1
        /\ last.ret # "Ok"
        /\ ~provOpen
        /\ ~capOpen

\* C19: start_recording() called from Idle, Success or Error with both open
\* calls succeeding sets the state to Recording and replaces the session
\* with a fresh one; begin_session is invoked before start_capture, each
\* exactly once.
C19_StartRecordingFresh ==
    ( /\ last.op = "start_recording"
      /\ last.pre.state.kind \in {"Idle", "Success", "Error"}
      /\ AllCallsOk ) =>
        /\ state = UiRecording
        /\ session = [partial_text |-> <<>>, final_text |-> <<>>]
        /\ Len(last.calls) = 2
        /\ last.calls[1].fn = "begin_session"
        /\ last.calls[2].fn = "start_capture"

C19_Witness ==
    /\ last.op = "start_recording"
    /\ last.pre.state.kind = "Success"
    /\ last.pre.session.final_text # <<>>
    /\ last.pre.session.partial_text # <<>>
    /\ AllCallsOk
    /\ state = UiRecording

\* C20: if the state is Idle then no provider session and no capture
\* opened by the controller is open.
C20_IdleImpliesNothingOpen ==
    state = UiIdle => (~provOpen /\ ~capOpen)

\* C17: stop_and_transcribe() called from Recording before any audio
\* arrived eventually returns, and when it returns Ok both the capture and
\* the provider session are closed.
C17_StopBeforeAudioReturns ==
    ( /\ pc = "read_mono_chunk"
      /\ last.pre.state = UiRecording
      /\ captured = <<>> )
        ~> (pc = "idle" /\ (last.ret = "Ok" => (~capOpen /\ ~provOpen)))

\* C18: when a stop_and_transcribe() called from Recording has ended the
\* provider session, the chunks fed to the provider are the chunks the
\* AudioSource captured since start_recording(), in capture order.
C18_FedEqualsCaptured ==
    ( /\ pc = "idle"
      /\ last.op = "stop_and_transcribe"
      /\ last.pre.state = UiRecording
      /\ last.ret = "Ok" ) =>
        fed = captured

\* C15: load() on a missing file returns the defaults without error;
\* save(s) followed by load() returns s when no I/O error occurs; and a
\* save of the settings the file already holds leaves the file unchanged.
C15_SettingsRoundTrip ==
    /\ (slast.op = "load" /\ path = RegularPath /\ ~slast.pre.exists) =>
            slast.ret = StoreOk(
                [global_hotkey |-> DefaultHotkey,
                 provider |-> DefaultProvider, auto_insert |-> TRUE])
    /\ (slast.op = "load" /\ sprev.op = "save" /\ ~slast.fault) =>
            slast.ret = StoreOk(sprev.arg)
    /\ ( /\ slast.op = "save"
         /\ slast.ret.ok
         /\ slast.pre.exists
         /\ FromStr(slast.pre.content) = Parsed(slast.arg, <<>>) ) =>
            file = slast.pre

C15_Witness ==
    /\ slast.op = "load"
    /\ sprev.op = "save"
    /\ sprev.arg.global_hotkey = <<"\\">>
    /\ sprev.arg.provider = <<"\\">>
    /\ ~sprev.arg.auto_insert
    /\ slast.ret.ok

====
